---- MODULE Spec2Model ----
(***************************************************************************)
(* Model of cangjie_to_pleco_pqb.py: the Cangjie 3/5 code-table loader,    *)
(* the section composer of main(), the sort-key and positional-index       *)
(* helpers, and build_pqb writing the Pleco .pqb store.                    *)
(*                                                                         *)
(* Strings are sequences of Unicode codepoints (Python str), so ord/chr,   *)
(* the CJK range filter, sorted() and the full-width transform are         *)
(* computed on the codepoints themselves.                                  *)
(***************************************************************************)
EXTENDS Integers, Sequences, FiniteSets, TLC

VARIABLES
    pc,        \* position of the run inside main() / build_pqb()
    cj3Text,   \* content of the file named by --cj3
    cj5Text,   \* content of the file named by --cj5
    cj3,       \* main: cj3 = load_cangjie_table(args.cj3)
    cj5,       \* main: cj5 = load_cangjie_table(args.cj5)
    all_chars, \* main: the characters of all_chars not yet visited by the loop
    entries,   \* main: entries dict, character -> defn (the code reads it only
               \* through "not entries", sorted(entries.keys()) and entries[ch])
    file,      \* what is durably stored at the output path (NoFile: nothing)
    db,        \* build_pqb: the connection's view (committed + pending writes)
    unlinked,  \* build_pqb: whether out.unlink() ran
    now,       \* build_pqb: now
    uid,       \* build_pqb / insert_posdex: uid
    todo,      \* build_pqb: the part of sorted(entries.keys()) still to visit
    ch,        \* build_pqb: ch / insert_posdex: word
    pron,      \* build_pqb / insert_posdex: pron
    err        \* the exception that ended the run ("none" while running)

vars == <<pc, cj3Text, cj5Text, cj3, cj5, all_chars, entries, file, db,
          unlinked, now, uid, todo, ch, pron, err>>

(***************************************************************************)
(* Bounds of the model.                                                    *)
(***************************************************************************)
MaxLines == 2       \* lines per input table in the build specification
MaxTextLen == 6     \* codepoints of an exhaustively enumerated table text
MaxWordLen == 5     \* codepoints of a word handed to insert_posdex
MaxPronToks == 5    \* syllables of a pron handed to insert_posdex

(***************************************************************************)
(* Codepoints and program constants.                                       *)
(***************************************************************************)
PLECO_NL == 60081                \* U+EAB1
FULLWIDTH_OFFSET == 65248        \* 0xFEE0
BOM == 65279                     \* U+FEFF

LATIN_SHAPES ==
    << 26085, 26376, 37329, 26408, 27700, 28779, 22303,
       31481, 25096, 21313, 22823, 20013, 19968, 24339,
       20154, 24515, 25163, 21475, 23608, 24319, 23665,
       22899, 30000, 38627, 21340, 37325 >>

\* LATIN_TO_SHAPE.get(ch, ch): "a".."z" are 97..122
LATIN_TO_SHAPE_get(cp) ==
    IF 97 <= cp /\ cp <= 122 THEN LATIN_SHAPES[cp - 96] ELSE cp

CJK_RANGES ==
    << <<19968, 40959>>, <<13312, 19903>>, <<131072, 173791>>,
       <<173824, 177983>>, <<177984, 178205>>, <<178208, 183981>>,
       <<183984, 191456>>, <<201552, 205743>>, <<191472, 192093>>,
       <<205744, 210041>>, <<194560, 195103>> >>

EXTRA_ALLOWED == {12295}

\* str.isspace() / the regex class \s on str patterns
Whitespace ==
    {9, 10, 11, 12, 13, 28, 29, 30, 31, 32, 133, 160, 5760} \cup (8192..8202)
    \cup {8232, 8233, 8239, 8287, 12288}

\* the line boundaries of str.splitlines()
LineBreaks == {10, 11, 12, 13, 28, 29, 30, 133, 8232, 8233}

(***************************************************************************)
(* Python string primitives.                                               *)
(***************************************************************************)
RECURSIVE lstrip(_, _)
lstrip(s, chars) ==
    IF s # <<>> /\ Head(s) \in chars THEN lstrip(Tail(s), chars) ELSE s

RECURSIVE rstrip(_, _)
rstrip(s, chars) ==
    IF s # <<>> /\ s[Len(s)] \in chars
    THEN rstrip(SubSeq(s, 1, Len(s) - 1), chars)
    ELSE s

strip(s) == rstrip(lstrip(s, Whitespace), Whitespace)

RECURSIVE splitlines_from(_, _, _)
splitlines_from(text, i, cur) ==
    IF i > Len(text) THEN (IF cur = <<>> THEN <<>> ELSE <<cur>>)
    ELSE IF text[i] \in LineBreaks
    THEN LET step == IF text[i] = 13 /\ i < Len(text) /\ text[i + 1] = 10
                     THEN 2 ELSE 1
         IN  <<cur>> \o splitlines_from(text, i + step, <<>>)
    ELSE splitlines_from(text, i + 1, Append(cur, text[i]))

splitlines(text) == splitlines_from(text, 1, <<>>)

RECURSIVE skip_run(_, _, _)
skip_run(s, i, seps) ==
    IF i <= Len(s) /\ s[i] \in seps THEN skip_run(s, i + 1, seps) ELSE i

\* re.split(r"[seps]+", s)
RECURSIVE re_split_from(_, _, _, _)
re_split_from(s, i, cur, seps) ==
    IF i > Len(s) THEN <<cur>>
    ELSE IF s[i] \in seps
    THEN <<cur>> \o re_split_from(s, skip_run(s, i, seps), <<>>, seps)
    ELSE re_split_from(s, i + 1, Append(cur, s[i]), seps)

re_split(s, seps) == re_split_from(s, 1, <<>>, seps)

RECURSIVE join(_, _)
join(sep, parts) ==
    IF parts = <<>> THEN <<>>
    ELSE IF Len(parts) = 1 THEN parts[1]
    ELSE parts[1] \o sep \o join(sep, Tail(parts))

\* Python's ordering of str: lexicographic by codepoint
RECURSIVE str_lt(_, _)
str_lt(a, b) ==
    IF b = <<>> THEN FALSE
    ELSE IF a = <<>> THEN TRUE
    ELSE IF a[1] # b[1] THEN a[1] < b[1]
    ELSE str_lt(Tail(a), Tail(b))

\* the strings of S in an order that is not ascending (largest first)
RECURSIVE largest_first(_)
largest_first(S) ==
    IF S = {} THEN <<>>
    ELSE LET m == CHOOSE x \in S : \A y \in S \ {x} : str_lt(y, x)
         IN  <<m>> \o largest_first(S \ {m})

\* sorted(iterable of distinct strings)
RECURSIVE sorted(_)
sorted(S) ==
    IF S = {} THEN <<>>
    ELSE LET m == CHOOSE x \in S : \A y \in S \ {x} : str_lt(x, y)
         IN  <<m>> \o sorted(S \ {m})

(***************************************************************************)
(* CodeTableLoader.                                                        *)
(***************************************************************************)
is_cjk_word(word) ==
    /\ word # <<>>
    /\ \A i \in DOMAIN word :
          \/ word[i] \in EXTRA_ALLOWED
          \/ \E r \in DOMAIN CJK_RANGES :
                CJK_RANGES[r][1] <= word[i] /\ word[i] <= CJK_RANGES[r][2]

\* table.setdefault(char, set()).add(code)
setdefault_add(table, char, code) ==
    [c \in DOMAIN table \cup {char} |->
        (IF c \in DOMAIN table THEN table[c] ELSE {})
        \cup (IF c = char THEN {code} ELSE {})]

\* a loader that does not check len(char) != 1
load_line_any_length(table, raw) ==
    LET line == strip(raw) IN
    IF line = <<>> \/ line[1] = 35 THEN table
    ELSE LET parts == re_split(line, Whitespace) IN
         IF Len(parts) < 2 THEN table
         ELSE LET code == strip(parts[1])
                  char == strip(parts[2])
              IN  IF code = <<>> \/ char = <<>> THEN table
                  ELSE IF ~is_cjk_word(char) THEN table
                  ELSE setdefault_add(table, char, code)

\* one iteration of the loop over text.splitlines()
load_line(table, raw) ==
    LET line == strip(raw) IN
    IF line = <<>> \/ line[1] = 35 THEN table
    ELSE LET parts == re_split(line, Whitespace) IN
         IF Len(parts) < 2 THEN table
         ELSE LET code == strip(parts[1])
                  char == strip(parts[2])
              IN  IF code = <<>> \/ char = <<>> THEN table
                  ELSE IF Len(char) # 1 \/ ~is_cjk_word(char) THEN table
                  ELSE setdefault_add(table, char, code)

RECURSIVE load_lines(_, _)
load_lines(table, lines) ==
    IF lines = <<>> THEN table
    ELSE load_lines(load_line(table, Head(lines)), Tail(lines))

EmptyTable == [c \in {} |-> {}]
EmptyDict == [c \in {} |-> <<>>]

load_cangjie_table(text) ==
    load_lines(EmptyTable, splitlines(lstrip(text, {BOM})))

(***************************************************************************)
(* Transliterator and SectionComposer.                                     *)
(***************************************************************************)
latin_code_to_shapes(code) ==
    [i \in DOMAIN code |-> LATIN_TO_SHAPE_get(code[i])]

\* list(dict.fromkeys(codes)): first occurrences, in order
RECURSIVE dict_fromkeys(_)
dict_fromkeys(codes) ==
    IF codes = <<>> THEN <<>>
    ELSE LET init == dict_fromkeys(SubSeq(codes, 1, Len(codes) - 1))
             last == codes[Len(codes)]
         IN  IF \E i \in DOMAIN init : init[i] = last THEN init
             ELSE Append(init, last)

SLASH == <<32, 47, 32>>                                 \* " / "
LABEL_CJ == <<67, 97, 110, 103, 106, 105, 101>>         \* "Cangjie"
LABEL_CJ3 == <<67, 97, 110, 103, 106, 105, 101, 51>>    \* "Cangjie3"
LABEL_CJ5 == <<67, 97, 110, 103, 106, 105, 101, 53>>    \* "Cangjie5"

format_section(label, codes) ==
    LET cs == dict_fromkeys(codes)
        shapes == [i \in DOMAIN cs |-> latin_code_to_shapes(cs[i])]
    IN  label \o <<58, PLECO_NL>>
        \o join(SLASH, shapes) \o <<PLECO_NL>>
        \o join(SLASH, cs)

\* cjN.get(ch, set())
table_get(table, c) == IF c \in DOMAIN table THEN table[c] ELSE {}

\* entries[c] = d
dict_set(d_, c, d) ==
    [k \in DOMAIN d_ \cup {c} |-> IF k = c THEN d ELSE d_[k]]

\* a composer without the "identical => single section" branch
compose_entry_no_merge(ents, t3, t5, c) ==
    LET codes3 == sorted(table_get(t3, c))
        codes5 == sorted(table_get(t5, c))
    IN  IF codes3 = <<>> /\ codes5 = <<>> THEN ents
        ELSE LET parts ==
                    (IF codes3 # <<>>
                     THEN <<format_section(LABEL_CJ3, codes3)>> ELSE <<>>)
                    \o (IF codes5 # <<>>
                        THEN <<format_section(LABEL_CJ5, codes5)>> ELSE <<>>)
             IN  dict_set(ents, c, join(<<PLECO_NL, PLECO_NL>>, parts))

\* a composer that appends the Cangjie5 section before the Cangjie3 one
compose_entry_cj5_first(ents, t3, t5, c) ==
    LET codes3 == sorted(table_get(t3, c))
        codes5 == sorted(table_get(t5, c))
    IN  IF codes3 = <<>> /\ codes5 = <<>> THEN ents
        ELSE IF codes3 = codes5
        THEN dict_set(ents, c, format_section(LABEL_CJ, codes3))
        ELSE LET parts ==
                    (IF codes5 # <<>>
                     THEN <<format_section(LABEL_CJ5, codes5)>> ELSE <<>>)
                    \o (IF codes3 # <<>>
                        THEN <<format_section(LABEL_CJ3, codes3)>> ELSE <<>>)
             IN  dict_set(ents, c, join(<<PLECO_NL, PLECO_NL>>, parts))

\* main, the body of "for ch in all_chars": the entries dict after it
compose_entry(ents, t3, t5, c) ==
    LET codes3 == sorted(table_get(t3, c))
        codes5 == sorted(table_get(t5, c))
    IN  IF codes3 = <<>> /\ codes5 = <<>> THEN ents
        ELSE IF codes3 = codes5
        THEN dict_set(ents, c, format_section(LABEL_CJ, codes3))
        ELSE LET parts ==
                    (IF codes3 # <<>>
                     THEN <<format_section(LABEL_CJ3, codes3)>> ELSE <<>>)
                    \o (IF codes5 # <<>>
                        THEN <<format_section(LABEL_CJ5, codes5)>> ELSE <<>>)
             IN  dict_set(ents, c, join(<<PLECO_NL, PLECO_NL>>, parts))

(***************************************************************************)
(* RomanizationKeyer.                                                      *)
(***************************************************************************)
to_fullwidth_ascii(s) ==
    [i \in DOMAIN s |->
        IF 33 <= s[i] /\ s[i] <= 126 THEN s[i] + FULLWIDTH_OFFSET ELSE s[i]]

\* The readings pypinyin (Style.TONE3, heteronym=False) gives the characters
\* of the model; any other character has none and reaches the errors callback.
PinyinDict ==
    ( 26085 :> <<114, 105, 52>>            \* U+65E5 "ri4"
   @@ 39353 :> <<114, 105, 52>>            \* U+99B9 "ri4"
   @@ 26376 :> <<121, 117, 101, 52>>       \* U+6708 "yue4"
   @@ 22899 :> <<110, 252, 51>>            \* U+5973 "nu:3" with U+00FC
   @@ 12295 :> <<108, 105, 110, 103, 50>>  \* U+3007 "ling2"
    )

\* pypinyin_pinyin(word, style=TONE3, heteronym=False, errors=lambda _: [""])
pypinyin_pinyin(word) ==
    [i \in DOMAIN word |->
        IF word[i] \in DOMAIN PinyinDict THEN <<PinyinDict[word[i]]>>
        ELSE << <<>> >>]

mandarin_pinyin_tone3(word) ==
    LET py == pypinyin_pinyin(word) IN
    [i \in DOMAIN py |->
        LET syl == IF py[i] # <<>> THEN py[i][1] ELSE <<>>
        IN  [j \in DOMAIN syl |-> IF syl[j] = 252 THEN 118 ELSE syl[j]]]

RECURSIVE concat(_)
concat(parts) ==
    IF parts = <<>> THEN <<>> ELSE Head(parts) \o concat(Tail(parts))

Min(a, b) == IF a < b THEN a ELSE b

\* a sort key that leaves the character out
make_sortkey_pinyin_only(py_syllables, word) ==
    IF Len(word) = 1
    THEN to_fullwidth_ascii(IF py_syllables # <<>> THEN py_syllables[1]
                            ELSE <<>>)
    ELSE concat([i \in 1..Min(Len(word), Len(py_syllables)) |->
                    to_fullwidth_ascii(py_syllables[i])])

make_sortkey(py_syllables, word) ==
    IF Len(word) = 1
    THEN to_fullwidth_ascii(IF py_syllables # <<>> THEN py_syllables[1]
                            ELSE <<>>) \o word
    ELSE concat([i \in 1..Min(Len(word), Len(py_syllables)) |->
                    to_fullwidth_ascii(py_syllables[i]) \o <<word[i]>>])

\* sk = make_sortkey(py, ch) or ch
sortkey_of(c) ==
    LET sk == make_sortkey(mandarin_pinyin_tone3(c), c)
    IN  IF sk # <<>> THEN sk ELSE c

\* pron = " ".join(py)
pron_of(c) == join(<<32>>, mandarin_pinyin_tone3(c))

RECURSIVE nonempty(_)
nonempty(parts) ==
    IF parts = <<>> THEN <<>>
    ELSE (IF Head(parts) # <<>> THEN <<Head(parts)>> ELSE <<>>)
         \o nonempty(Tail(parts))

split_pron_tokens(p) == nonempty(re_split(strip(p), Whitespace \cup {64}))

(***************************************************************************)
(* The store: what a connection sees and what the output path holds.       *)
(***************************************************************************)
SCHEMA_SQL ==
    << "pleco_dict_entries", "pleco_dict_imports", "pleco_dict_properties",
       "pleco_dict_posdex_hz_1", "pleco_dict_posdex_hz_2",
       "pleco_dict_posdex_hz_3", "pleco_dict_posdex_hz_4",
       "pleco_dict_posdex_py_1", "pleco_dict_posdex_py_2",
       "pleco_dict_posdex_py_3", "pleco_dict_posdex_py_4" >>

INDEX_SQL ==
    << "idx_pleco_dict_entries_sortkey",
       "idx_pleco_dict_posdex_hz_1_syllable_uid_length",
       "idx_pleco_dict_posdex_hz_1_uid",
       "idx_pleco_dict_posdex_hz_2_syllable_uid",
       "idx_pleco_dict_posdex_hz_2_uid",
       "idx_pleco_dict_posdex_hz_3_syllable_uid",
       "idx_pleco_dict_posdex_hz_3_uid",
       "idx_pleco_dict_posdex_hz_4_syllable_uid",
       "idx_pleco_dict_posdex_hz_4_uid",
       "idx_pleco_dict_posdex_py_1_syllable_uid_length",
       "idx_pleco_dict_posdex_py_1_uid",
       "idx_pleco_dict_posdex_py_2_syllable_uid",
       "idx_pleco_dict_posdex_py_2_uid",
       "idx_pleco_dict_posdex_py_3_syllable_uid",
       "idx_pleco_dict_posdex_py_3_uid",
       "idx_pleco_dict_posdex_py_4_syllable_uid",
       "idx_pleco_dict_posdex_py_4_uid" >>

first_n(seq, n) == {seq[i] : i \in 1..n}

\* a database file sqlite3.connect() has just created: no table, no row
EmptyData ==
    [tables  |-> {},
     indexes |-> {},
     entries |-> <<>>,
     hz      |-> [i \in 1..4 |-> <<>>],
     py      |-> [i \in 1..4 |-> <<>>],
     props   |-> <<>>,
     imports |-> <<>>]

SchemaData ==
    [EmptyData EXCEPT !.tables = first_n(SCHEMA_SQL, Len(SCHEMA_SQL)),
                      !.indexes = first_n(INDEX_SQL, Len(INDEX_SQL))]

NoFile == [exists |-> FALSE, data |-> EmptyData]
NoDb == [open |-> FALSE, data |-> EmptyData]

\* the INSERT of build_pqb into pleco_dict_entries
entry_row(u, t, c, d) ==
    [uid |-> u, created |-> t, modified |-> t, length |-> 1, word |-> c,
     altword |-> "NULL", pron |-> pron_of(c), defn |-> d,
     sortkey |-> sortkey_of(c)]

\* "uid" INTEGER PRIMARY KEY, "sortkey" TEXT UNIQUE
entry_conflicts(data, row) ==
    \E i \in DOMAIN data.entries :
        \/ data.entries[i].uid = row.uid
        \/ data.entries[i].sortkey = row.sortkey

insert_entry(data, row) == [data EXCEPT !.entries = Append(@, row)]

\* index rows that carry the length of the truncated word
insert_posdex_truncated_length(data, u, word, p) ==
    LET wlen == Min(4, Len(word))
        py_tokens == split_pron_tokens(p)
    IN  [data EXCEPT
            !.hz = [i \in 1..4 |->
                      IF i <= Len(word)
                      THEN Append(@[i], [syllable |-> <<word[i]>>,
                                         uid |-> u, length |-> wlen])
                      ELSE @[i]],
            !.py = [i \in 1..4 |->
                      IF i <= Len(py_tokens)
                      THEN Append(@[i], [syllable |-> py_tokens[i],
                                         uid |-> u, length |-> wlen])
                      ELSE @[i]]]

insert_posdex(data, u, word, p) ==
    LET wlen == Len(word)
        py_tokens == split_pron_tokens(p)
    IN  [data EXCEPT
            !.hz = [i \in 1..4 |->
                      IF i <= Len(word)
                      THEN Append(@[i], [syllable |-> <<word[i]>>,
                                         uid |-> u, length |-> wlen])
                      ELSE @[i]],
            !.py = [i \in 1..4 |->
                      IF i <= Len(py_tokens)
                      THEN Append(@[i], [syllable |-> py_tokens[i],
                                         uid |-> u, length |-> wlen])
                      ELSE @[i]]]

RECURSIVE digits(_)
digits(n) ==
    IF n < 10 THEN <<48 + n>> ELSE Append(digits(n \div 10), 48 + (n % 10))

\* str(n) of an int
str(n) == IF n < 0 THEN <<45>> \o digits(0 - n) ELSE digits(n)

\* command-line defaults of main
DICT_NAME == "Cangjie Input Dictionary (U+5009 U+9821 U+8F38 U+5165 U+5B57 U+5178)"
MENU_NAME == "Cangjie Input Dictionary"
SHORT_NAME == "Cangjie Input Dictionary"
ICON == "CJ"

\* int(time.time()): the values the model draws
Clock == {1700000000, 1700000001}

\* random.randint(-2_000_000_000, 2_000_000_000): the values the model draws
\* and random.randint(1, 50_000_000): the <<file_id, file_creator>> pairs
\* the model draws
RandomDraws == {<<-2000000000, 50000000>>, <<2000000000, 1>>}

props_list(entry_count, t, file_id, file_creator) ==
    << <<"DictIconFillColor", <<51, 57, 51, 55, 50>>, 0>>,
       <<"DictIconName", ICON, 1>>,
       <<"DictIconTextColor", <<49, 54, 55, 55, 55, 50, 49, 53>>, 0>>,
       <<"DictLang", "Chinese", 1>>,
       <<"DictMenuName", MENU_NAME, 1>>,
       <<"DictName", DICT_NAME, 1>>,
       <<"DictShortName", SHORT_NAME, 1>>,
       <<"EntryCount", str(entry_count), 0>>,
       <<"FileCreated", str(t), 0>>,
       <<"FileCreator", str(file_creator), 0>>,
       <<"FileGenerator", "Pleco Engine 2.0", 1>>,
       <<"FileID", str(file_id), 0>>,
       <<"FilePlatform", "Android", 1>>,
       <<"FormatString", "Pleco SQL Dictionary Database", 1>>,
       <<"FormatVersion", <<56>>, 0>>,
       <<"TransLang", "English", 1>> >>

RECURSIVE without_prop(_, _)
without_prop(rows, id) ==
    IF rows = <<>> THEN <<>>
    ELSE (IF Head(rows).propset = 0 /\ Head(rows).propid = id
          THEN <<>> ELSE <<Head(rows)>>) \o without_prop(Tail(rows), id)

\* INSERT OR REPLACE INTO pleco_dict_properties, UNIQUE (propset, propid)
RECURSIVE insert_or_replace(_, _)
insert_or_replace(rows, props) ==
    IF props = <<>> THEN rows
    ELSE insert_or_replace(
             Append(without_prop(rows, Head(props)[1]),
                    [propset |-> 0, propid |-> Head(props)[1],
                     propvalue |-> Head(props)[2],
                     propisstring |-> Head(props)[3]]),
             Tail(props))

write_properties(data, entry_count, t, file_id, file_creator) ==
    [data EXCEPT !.props =
        insert_or_replace(@, props_list(entry_count, t, file_id, file_creator))]

\* INSERT INTO pleco_dict_imports; "id" is AUTOINCREMENT
insert_import(data, t, count) ==
    [data EXCEPT !.imports =
        Append(@, [id |-> Len(@) + 1, starttime |-> t, endtime |-> t,
                   startentry |-> 1, endentry |-> count])]

(***************************************************************************)
(* Inputs of the build specification.                                      *)
(***************************************************************************)
\* lines a --cj3 table is made of
Pool3 ==
    { <<98, 32, 26085>>,                  \* "b U+65E5"
      <<97, 9, 26085, 9, 53, 48, 48>>,    \* "a<TAB>U+65E5<TAB>500"
      <<97, 98, 12288, 39353>>,           \* "ab<U+3000>U+99B9"
      <<122, 122, 32, 26085, 26376>> }    \* "zz U+65E5U+6708": two codepoints

\* lines a --cj5 table is made of
Pool5 ==
    { <<97, 32, 26085>>,                  \* "a U+65E5"
      <<98, 32, 26085>>,                  \* "b U+65E5"
      <<120, 32, 131072>> }               \* "x U+20000": no reading

Texts(pool) ==
    { join(<<10>>, lines) :
        lines \in UNION { [1..n -> pool] : n \in 0..MaxLines } }

\* an artifact an earlier build left at the output path
StaleData ==
    insert_import(
        write_properties(
            insert_posdex(
                insert_entry(SchemaData,
                    entry_row(1, 1600000000, <<26376>>,
                              format_section(LABEL_CJ, <<<<98>>>>))),
                1, <<26376>>, pron_of(<<26376>>)),
            1, 1600000000, 2000000000, 1),
        1600000000, 1)

PriorFiles == {NoFile, [exists |-> TRUE, data |-> StaleData]}

Locals ==
    /\ db = NoDb
    /\ unlinked = FALSE
    /\ now = 0
    /\ uid = 0
    /\ todo = <<>>
    /\ ch = <<>>
    /\ pron = <<>>

Init ==
    /\ pc = "load3"
    /\ cj3Text \in Texts(Pool3)
    /\ cj5Text \in Texts(Pool5)
    /\ cj3 = EmptyTable
    /\ cj5 = EmptyTable
    /\ all_chars = {}
    /\ entries = EmptyDict
    /\ file \in PriorFiles
    /\ Locals
    /\ err = "none"

(***************************************************************************)
(* main.                                                                   *)
(***************************************************************************)
inputs == <<cj3Text, cj5Text>>
build_locals == <<db, unlinked, now, uid, todo, ch, pron>>

LoadCj3 ==
    /\ pc = "load3"
    /\ cj3' = load_cangjie_table(cj3Text)
    /\ pc' = "load5"
    /\ UNCHANGED <<inputs, cj5, all_chars, entries, file, build_locals, err>>

\* cj5 = load_cangjie_table(args.cj5); all_chars = set(cj3) | set(cj5)
LoadCj5 ==
    /\ pc = "load5"
    /\ cj5' = load_cangjie_table(cj5Text)
    /\ all_chars' = DOMAIN cj3 \cup DOMAIN cj5'
    /\ pc' = "compose"
    /\ UNCHANGED <<inputs, cj3, entries, file, build_locals, err>>

\* one iteration of "for ch in all_chars", in the set's iteration order
Compose ==
    /\ pc = "compose"
    /\ \E c \in all_chars :
          /\ entries' = compose_entry(entries, cj3, cj5, c)
          /\ all_chars' = all_chars \ {c}
    /\ UNCHANGED <<pc, inputs, cj3, cj5, file, build_locals, err>>

\* the check for an empty entry set placed after the removal of the file
NoEntries_after_unlink ==
    /\ pc = "compose"
    /\ all_chars = {}
    /\ entries = EmptyDict
    /\ file' = NoFile
    /\ pc' = "aborted"
    /\ err' = "SystemExit"
    /\ UNCHANGED <<inputs, cj3, cj5, all_chars, entries, build_locals>>

\* if not entries: raise SystemExit(...)
NoEntries ==
    /\ pc = "compose"
    /\ all_chars = {}
    /\ entries = EmptyDict
    /\ pc' = "aborted"
    /\ err' = "SystemExit"
    /\ UNCHANGED <<inputs, cj3, cj5, all_chars, entries, file, build_locals>>

\* main without the "if not entries" check
CallBuild_unchecked ==
    /\ pc = "compose"
    /\ all_chars = {}
    /\ pc' = "unlink"
    /\ UNCHANGED <<inputs, cj3, cj5, all_chars, entries, file, build_locals,
                   err>>

\* build_pqb(entries, args.out, ...)
CallBuild ==
    /\ pc = "compose"
    /\ all_chars = {}
    /\ entries # EmptyDict
    /\ pc' = "unlink"
    /\ UNCHANGED <<inputs, cj3, cj5, all_chars, entries, file, build_locals,
                   err>>

(***************************************************************************)
(* build_pqb.                                                              *)
(***************************************************************************)
\* the exception leaves build_pqb and main and ends the process: the
\* connection is dropped with its pending transaction, and nothing of the
\* process's memory remains
Raise(e) ==
    /\ pc' = "failed"
    /\ err' = e
    /\ cj3' = EmptyTable
    /\ cj5' = EmptyTable
    /\ all_chars' = {}
    /\ entries' = EmptyDict
    /\ unlinked' = FALSE
    /\ db' = NoDb
    /\ now' = 0
    /\ uid' = 0
    /\ todo' = <<>>
    /\ ch' = <<>>
    /\ pron' = <<>>

\* build_pqb without the removal of the existing file
Unlink_keep ==
    /\ pc = "unlink"
    /\ unlinked' = file.exists
    /\ pc' = "connect"
    /\ UNCHANGED <<inputs, cj3, cj5, all_chars, entries, file, db, now, uid,
                   todo, ch, pron, err>>

\* if out.exists(): out.unlink()
Unlink ==
    /\ pc = "unlink"
    /\ unlinked' = file.exists
    /\ file' = NoFile
    /\ pc' = "connect"
    /\ UNCHANGED <<inputs, cj3, cj5, all_chars, entries, db, now, uid, todo,
                   ch, pron, err>>

\* con = sqlite3.connect(str(out)); PRAGMAs; cur = con.cursor()
\* connect opens the file at the path, creating it when there is none
Connect ==
    /\ pc = "connect"
    /\ file' = [exists |-> TRUE, data |-> file.data]
    /\ db' = [open |-> TRUE, data |-> file.data]
    /\ pc' = "schema"
    /\ UNCHANGED <<inputs, cj3, cj5, all_chars, entries, unlinked, now, uid,
                   todo, ch, pron, err>>

\* for sql in SCHEMA_SQL: cur.executescript(sql)   (each one autocommits)
\* CREATE TABLE of a table the file already holds raises "already exists"
CreateSchema ==
    /\ pc = "schema"
    /\ IF first_n(SCHEMA_SQL, Len(SCHEMA_SQL)) \cap db.data.tables # {}
       THEN /\ Raise("OperationalError")
            /\ UNCHANGED file
       ELSE /\ db' = [db EXCEPT
                        !.data.tables = first_n(SCHEMA_SQL, Len(SCHEMA_SQL))]
            /\ file' = [file EXCEPT !.data = db'.data]
            /\ pc' = "index"
            /\ UNCHANGED <<cj3, cj5, all_chars, entries, unlinked, now, uid,
                           todo, ch, pron, err>>
    /\ UNCHANGED inputs

\* for sql in INDEX_SQL: cur.execute(sql)   (DDL outside a transaction)
CreateIndexes ==
    /\ pc = "index"
    /\ db' = [db EXCEPT !.data.indexes = first_n(INDEX_SQL, Len(INDEX_SQL))]
    /\ file' = [file EXCEPT !.data = db'.data]
    /\ pc' = "now"
    /\ UNCHANGED <<inputs, cj3, cj5, all_chars, entries, unlinked, now, uid,
                   todo, ch, pron, err>>

\* a build that visits entries.keys() in an order other than ascending
RECURSIVE reversed(_)
reversed(seq) ==
    IF seq = <<>> THEN <<>> ELSE Append(reversed(Tail(seq)), Head(seq))

unsorted_keys == reversed(sorted(DOMAIN entries))

\* sorted(entries.keys())
sorted_keys == sorted(DOMAIN entries)

\* now = int(time.time()); uid = 1; the loop is entered
TakeTime ==
    /\ pc = "now"
    /\ now' \in Clock
    /\ uid' = 1
    /\ todo' = sorted_keys
    /\ pc' = IF todo' = <<>> THEN "props" ELSE "entry"
    /\ UNCHANGED <<inputs, cj3, cj5, all_chars, entries, file, db, unlinked,
                   ch, pron, err>>

\* a loop that goes on to the next character without the index rows
InsertEntry_no_index ==
    /\ pc = "entry"
    /\ todo # <<>>
    /\ LET c == Head(todo)
           row == entry_row(uid, now, c, entries[c])
       IN  /\ db' = [db EXCEPT !.data = insert_entry(@, row)]
           /\ ch' = c
           /\ pron' = row.pron
           /\ uid' = uid + 1
           /\ todo' = Tail(todo)
           /\ pc' = IF todo' = <<>> THEN "props" ELSE "entry"
           /\ UNCHANGED <<cj3, cj5, all_chars, entries, file, unlinked, now,
                          err>>
    /\ UNCHANGED inputs

\* ch, defn, py, pron, sk; INSERT INTO pleco_dict_entries
InsertEntry ==
    /\ pc = "entry"
    /\ todo # <<>>
    /\ LET c == Head(todo)
           row == entry_row(uid, now, c, entries[c])
       IN  IF entry_conflicts(db.data, row)
           THEN /\ Raise("IntegrityError")
                /\ UNCHANGED file
           ELSE /\ db' = [db EXCEPT !.data = insert_entry(@, row)]
                /\ ch' = c
                /\ pron' = row.pron
                /\ pc' = "posdex"
                /\ UNCHANGED <<cj3, cj5, all_chars, entries, file, unlinked,
                               now, uid, todo, err>>
    /\ UNCHANGED inputs

\* index rows written after the uid has moved on
InsertPosdex_next_uid ==
    /\ pc = "posdex"
    /\ db' = [db EXCEPT !.data = insert_posdex(@, uid + 1, ch, pron)]
    /\ uid' = uid + 1
    /\ todo' = Tail(todo)
    /\ pc' = IF todo' = <<>> THEN "props" ELSE "entry"
    /\ UNCHANGED <<inputs, cj3, cj5, all_chars, entries, file, unlinked, now,
                   ch, pron, err>>

\* insert_posdex(cur, uid, ch, pron); uid += 1
InsertPosdex ==
    /\ pc = "posdex"
    /\ db' = [db EXCEPT !.data = insert_posdex(@, uid, ch, pron)]
    /\ uid' = uid + 1
    /\ todo' = Tail(todo)
    /\ pc' = IF todo' = <<>> THEN "props" ELSE "entry"
    /\ UNCHANGED <<inputs, cj3, cj5, all_chars, entries, file, unlinked, now,
                   ch, pron, err>>

\* count = uid - 1; write_properties(cur, ..., entry_count=count, now=now)
WriteProperties ==
    /\ pc = "props"
    /\ \E r \in RandomDraws :
          db' = [db EXCEPT !.data =
                    write_properties(@, uid - 1, now, r[1], r[2])]
    /\ pc' = "imports"
    /\ UNCHANGED <<inputs, cj3, cj5, all_chars, entries, file, unlinked, now,
                   uid, todo, ch, pron, err>>

\* an import record that takes the next free uid for the last uid
InsertImport_next_uid ==
    /\ pc = "imports"
    /\ db' = [db EXCEPT !.data = insert_import(@, now, uid)]
    /\ pc' = "commit"
    /\ UNCHANGED <<inputs, cj3, cj5, all_chars, entries, file, unlinked, now,
                   uid, todo, ch, pron, err>>

\* INSERT INTO pleco_dict_imports (...) VALUES (now, now, 1, count)
InsertImport ==
    /\ pc = "imports"
    /\ db' = [db EXCEPT !.data = insert_import(@, now, uid - 1)]
    /\ pc' = "commit"
    /\ UNCHANGED <<inputs, cj3, cj5, all_chars, entries, file, unlinked, now,
                   uid, todo, ch, pron, err>>

\* con.commit(); con.close(); print(...)
Commit ==
    /\ pc = "commit"
    /\ file' = [file EXCEPT !.data = db.data]
    /\ db' = [db EXCEPT !.open = FALSE]
    /\ pc' = "done"
    /\ UNCHANGED <<inputs, cj3, cj5, all_chars, entries, unlinked, now, uid,
                   todo, ch, pron, err>>

(***************************************************************************)
(* Failures of the storage engine (sqlite3.Error out of connect, execute,  *)
(* executescript or commit).  build_pqb has no handler and no cleanup.     *)
(***************************************************************************)
\* sqlite3.connect or a PRAGMA raises: the file may already have been created
FailConnect ==
    /\ pc = "connect"
    /\ \E created \in BOOLEAN :
          file' = [exists |-> created, data |-> EmptyData]
    /\ Raise("OperationalError")
    /\ UNCHANGED inputs

\* the k+1-st CREATE TABLE raises: the first k are committed
FailSchema ==
    /\ pc = "schema"
    /\ \E k \in 0..(Len(SCHEMA_SQL) - 1) :
          file' = [file EXCEPT !.data.tables = first_n(SCHEMA_SQL, k)]
    /\ Raise("OperationalError")
    /\ UNCHANGED inputs

\* the k+1-st CREATE INDEX raises: the first k are committed
FailIndex ==
    /\ pc = "index"
    /\ \E k \in 0..(Len(INDEX_SQL) - 1) :
          file' = [file EXCEPT !.data.indexes = first_n(INDEX_SQL, k)]
    /\ Raise("OperationalError")
    /\ UNCHANGED inputs

\* an INSERT or the commit raises: the pending transaction is never committed
FailWrite ==
    /\ pc \in {"entry", "posdex", "props", "imports", "commit"}
    /\ Raise("OperationalError")
    /\ UNCHANGED <<inputs, file>>

Next ==
    \/ LoadCj3
    \/ LoadCj5
    \/ Compose
    \/ NoEntries
    \/ CallBuild
    \/ Unlink
    \/ Connect
    \/ CreateSchema
    \/ CreateIndexes
    \/ TakeTime
    \/ InsertEntry
    \/ InsertPosdex
    \/ WriteProperties
    \/ InsertImport
    \/ Commit
    \/ FailConnect
    \/ FailSchema
    \/ FailIndex
    \/ FailWrite

Spec == Init /\ [][Next]_vars

(***************************************************************************)
(* load_cangjie_table on its own: every text over a small alphabet, and    *)
(* texts with the other whitespace, line-break and codepoint classes.      *)
(***************************************************************************)
\* "\n", " ", "#", "a", U+65E5
LoadAlphabet == {10, 32, 35, 97, 26085}

AllTexts == UNION { [1..n -> LoadAlphabet] : n \in 0..MaxTextLen }

LoadExtras ==
    { <<BOM, BOM, 97, 32, 26085>>,                   \* leading BOMs
      <<97, 32, 26085, 10, BOM, 98, 32, 26085>>,     \* a BOM on line 2
      <<97, 9, 26085, 13, 10, 98, 9, 26085, 13, 10>>, \* CRLF, tabs
      <<97, 12288, 26085, 8232, 98, 31, 26376>>,     \* U+3000, U+2028, U+001F
      <<111, 32, 12295, 10, 120, 32, 12354>>,        \* U+3007; U+3042
      <<120, 32, 131072, 10, 121, 32, 210042>>,      \* U+20000; U+3347A
      <<122, 122, 32, 26085, 26376, 10, 97, 32, 26085, 32, 98>>,
      <<32, 35, 97, 32, 26085, 10, 97, 35, 32, 26085>>,   \* " #a X", "a# X"
      <<97, 98, 32, 26085, 10, 97, 32, 26085, 10, 97, 98, 32, 26085>> }

InitLoad ==
    /\ pc = "load"
    /\ cj3Text \in AllTexts \cup LoadExtras \cup Texts(Pool3)
    /\ cj5Text = <<>>
    /\ cj3 = EmptyTable
    /\ cj5 = EmptyTable
    /\ all_chars = {}
    /\ entries = EmptyDict
    /\ file = NoFile
    /\ Locals
    /\ err = "none"

LoadTable ==
    /\ pc = "load"
    /\ cj3' = load_cangjie_table(cj3Text)
    /\ pc' = "loaded"
    /\ UNCHANGED <<inputs, cj5, all_chars, entries, file, build_locals, err>>

NextLoad == LoadTable

SpecLoad == InitLoad /\ [][NextLoad]_vars

(***************************************************************************)
(* insert_posdex on its own: words and prons longer than four units.       *)
(***************************************************************************)
PosdexChars == {26085, 26376}
PosdexSyllables == {<<114, 105, 52>>, <<121, 117, 101, 52>>}
PosdexSeps == {<<32>>, <<64>>, <<32, 64, 9>>}
PosdexPrefixes == {<<>>, <<64, 32>>}

PosdexWords == UNION { [1..n -> PosdexChars] : n \in 0..MaxWordLen }

PosdexProns ==
    { pre \o join(sep, toks) \o pre :
        pre \in PosdexPrefixes, sep \in PosdexSeps,
        toks \in UNION { [1..n -> PosdexSyllables] : n \in 0..MaxPronToks } }

InitPosdex ==
    /\ pc = "posdex_call"
    /\ cj3Text = <<>>
    /\ cj5Text = <<>>
    /\ cj3 = EmptyTable
    /\ cj5 = EmptyTable
    /\ all_chars = {}
    /\ entries = EmptyDict
    /\ file = [exists |-> TRUE, data |-> SchemaData]
    /\ db = [open |-> TRUE, data |-> SchemaData]
    /\ unlinked = FALSE
    /\ now = 0
    /\ todo = <<>>
    /\ uid \in 1..2
    /\ ch \in PosdexWords
    /\ pron \in PosdexProns
    /\ err = "none"

CallInsertPosdex ==
    /\ pc = "posdex_call"
    /\ db' = [db EXCEPT !.data = insert_posdex(@, uid, ch, pron)]
    /\ pc' = "posdex_done"
    /\ UNCHANGED <<inputs, cj3, cj5, all_chars, entries, file, unlinked, now,
                   uid, todo, ch, pron, err>>

NextPosdex == CallInsertPosdex

SpecPosdex == InitPosdex /\ [][NextPosdex]_vars

(***************************************************************************)
(* Properties.                                                             *)
(***************************************************************************)

\* C1: after a successful build over N entries the uids of the entry rows
\* are exactly 1..N, without gap or repeat, and the character with the i-th
\* smallest codepoint has uid i, whatever order the input tables list the
\* characters in.
C1_UidsDenseInCodepointOrder ==
    pc = "done" =>
        LET rows == file.data.entries
            N == Cardinality(DOMAIN entries)
        IN  /\ Len(rows) = N
            /\ {rows[i].uid : i \in DOMAIN rows} = 1..N
            /\ \A i \in DOMAIN rows :
                  /\ rows[i].word \in DOMAIN entries
                  /\ rows[i].uid =
                        1 + Cardinality({c \in DOMAIN entries :
                                            c[1] < rows[i].word[1]})

\* a finished build of three characters whose table lists U+99B9 first,
\* before the smaller U+65E5
C1_Witness ==
    /\ pc = "done"
    /\ Len(file.data.entries) = 3
    /\ cj3Text # <<>>
    /\ Head(splitlines(cj3Text)) = <<97, 98, 12288, 39353>>

\* C2: in every terminal state of build_pqb either the store was committed
\* in full or no file exists at the output path.
C2_AllOrNothing ==
    pc \in {"done", "failed"} =>
        \/ ~file.exists
        \/ /\ pc = "done"
           /\ file.data = db.data
           /\ Len(file.data.imports) = 1

\* C3: no two entry rows share a sortkey at any point of the build, no
\* insert is rejected by the uniqueness constraint, and each sortkey is the
\* full-width transform of the syllable followed by the character (the bare
\* character when there is no syllable).
C3_SortkeysDistinct ==
    /\ err # "IntegrityError"
    /\ \A d \in {db.data, file.data} :
          \A i, j \in DOMAIN d.entries :
              i # j => d.entries[i].sortkey # d.entries[j].sortkey
    /\ \A i \in DOMAIN db.data.entries :
          LET r == db.data.entries[i] IN
          /\ Len(r.sortkey) = Len(r.pron) + 1
          /\ r.sortkey[Len(r.sortkey)] = r.word[1]
          /\ \A k \in DOMAIN r.pron :
                r.sortkey[k] = r.pron[k] + FULLWIDTH_OFFSET

\* a finished build holding two characters with the same syllable and one
\* character without any
C3_Witness ==
    /\ pc = "done"
    /\ \E i, j, k \in DOMAIN file.data.entries :
          /\ i # j
          /\ file.data.entries[i].pron = file.data.entries[j].pron
          /\ file.data.entries[i].pron # <<>>
          /\ file.data.entries[k].pron = <<>>

(***************************************************************************)
(* Reading a composed definition back: its sections, their labels and the  *)
(* codes they list.                                                        *)
(***************************************************************************)
\* the states in which entries is being filled or has been written out (no
\* other step changes it)
Composing == pc \in {"compose", "done"}

HasAt(s, i, sep) ==
    /\ i + Len(sep) - 1 <= Len(s)
    /\ SubSeq(s, i, i + Len(sep) - 1) = sep

RECURSIVE SplitOn(_, _)
SplitOn(s, sep) ==
    IF \E i \in DOMAIN s : HasAt(s, i, sep)
    THEN LET i == CHOOSE i \in DOMAIN s :
                     /\ HasAt(s, i, sep)
                     /\ \A j \in 1..(i - 1) : ~HasAt(s, j, sep)
         IN  <<SubSeq(s, 1, i - 1)>>
             \o SplitOn(SubSeq(s, i + Len(sep), Len(s)), sep)
    ELSE <<s>>

SectionsOf(defn) == SplitOn(defn, <<PLECO_NL, PLECO_NL>>)
SectionLines(sec) == SplitOn(sec, <<PLECO_NL>>)

\* a section is three non-empty lines, the first ending with ":"
WellFormedSection(sec) ==
    LET ls == SectionLines(sec) IN
    /\ Len(ls) = 3
    /\ \A i \in 1..3 : ls[i] # <<>>
    /\ ls[1][Len(ls[1])] = 58

SectionLabel(sec) ==
    LET l == SectionLines(sec)[1] IN SubSeq(l, 1, Len(l) - 1)

SectionCodes(sec) == SplitOn(SectionLines(sec)[3], SLASH)

SectionLabels(defn) ==
    LET secs == SectionsOf(defn) IN
    [i \in DOMAIN secs |-> SectionLabel(secs[i])]

\* the codes a table text gives character c, one per qualifying line, in
\* the order of the lines
RECURSIVE CodesByLine(_, _)
CodesByLine(lines, c) ==
    IF lines = <<>> THEN <<>>
    ELSE LET t == load_line(EmptyTable, Head(lines))
         IN  (IF c \in DOMAIN t THEN <<CHOOSE k \in t[c] : TRUE>> ELSE <<>>)
             \o CodesByLine(Tail(lines), c)

\* ... with later repeats removed: the order of first encounter
EncounterOrder(text, c) ==
    LET all == CodesByLine(splitlines(lstrip(text, {BOM})), c) IN
    [i \in 1..Cardinality({all[k] : k \in DOMAIN all}) |->
        LET firsts == {k \in DOMAIN all : \A j \in 1..(k - 1) : all[j] # all[k]}
            p == CHOOSE k \in firsts :
                    Cardinality({j \in firsts : j < k}) = i - 1
        IN  all[p]]

\* a precedes b in the lexicographic order of codepoints
LexLess(a, b) ==
    \E k \in DOMAIN b :
        /\ Len(a) >= k - 1
        /\ \A m \in 1..(k - 1) : a[m] = b[m]
        /\ (Len(a) = k - 1 \/ a[k] < b[k])

\* C4: a character present in both tables with identical code sets has a
\* definition of exactly one section, labelled "Cangjie".
C4_IdenticalSetsOneSection ==
    \A c \in IF Composing THEN DOMAIN entries ELSE {} :
        (c \in DOMAIN cj3 /\ c \in DOMAIN cj5 /\ cj3[c] = cj5[c]) =>
            LET secs == SectionsOf(entries[c]) IN
            /\ Len(secs) = 1
            /\ WellFormedSection(secs[1])
            /\ SectionLabel(secs[1]) = LABEL_CJ

\* a composed character whose two tables give the same two codes, met in
\* different orders
C4_Witness ==
    \E c \in DOMAIN entries :
        /\ c \in DOMAIN cj3 /\ c \in DOMAIN cj5
        /\ cj3[c] = cj5[c]
        /\ Cardinality(cj3[c]) = 2
        /\ EncounterOrder(cj3Text, c) # EncounterOrder(cj5Text, c)

\* C5: a character whose two code sets differ has one section per
\* non-empty system, Cangjie3 before Cangjie5, each under its own label,
\* the sections separated by exactly two sentinel line-breaks.
C5_DifferentSetsOwnSections ==
    \A c \in IF Composing THEN DOMAIN entries ELSE {} :
        table_get(cj3, c) # table_get(cj5, c) =>
            LET secs == SectionsOf(entries[c]) IN
            /\ \A i \in DOMAIN secs : WellFormedSection(secs[i])
            /\ SectionLabels(entries[c]) =
                  (IF c \in DOMAIN cj3 THEN <<LABEL_CJ3>> ELSE <<>>)
                  \o (IF c \in DOMAIN cj5 THEN <<LABEL_CJ5>> ELSE <<>>)

\* one composed character with two sections and one found in a single table
C5_Witness ==
    /\ \E c \in DOMAIN entries :
          /\ c \in DOMAIN cj3 /\ c \in DOMAIN cj5
          /\ cj3[c] # cj5[c]
          /\ Len(SectionsOf(entries[c])) = 2
    /\ \E c \in DOMAIN entries :
          /\ c \notin DOMAIN cj3
          /\ Len(SectionsOf(entries[c])) = 1

\* the table a section of character c lists the codes of
SectionTable(sec) ==
    IF SectionLabel(sec) = LABEL_CJ5 THEN cj5 ELSE cj3

C7_EmptyTablesAbort ==
    (pc \notin {"load3", "load5", "failed"}
        /\ cj3 = EmptyTable /\ cj5 = EmptyTable) =>
            /\ pc \in {"compose", "aborted"}
            /\ pc = "aborted" => err = "SystemExit"
            /\ ~ENABLED CallBuild
            /\ db = NoDb
            /\ ~unlinked
            /\ file \in PriorFiles

\* an aborted run whose --cj3 table is not empty, only malformed
C7_Witness ==
    /\ pc = "aborted"
    /\ cj3Text # <<>>
    /\ ~file.exists

(***************************************************************************)
(* The lines and tokens of a table text, by position.                      *)
(***************************************************************************)
StripBOMs(t) ==
    LET n == CHOOSE n \in 0..Len(t) :
                /\ \A i \in 1..n : t[i] = BOM
                /\ (n = Len(t) \/ t[n + 1] # BOM)
    IN  SubSeq(t, n + 1, Len(t))

Permitted(cp) ==
    \/ cp \in EXTRA_ALLOWED
    \/ \E r \in DOMAIN CJK_RANGES :
          CJK_RANGES[r][1] <= cp /\ cp <= CJK_RANGES[r][2]

\* S[a..b] is a maximal run without whitespace, and only whitespace lies
\* between it and the start of its line
FirstToken(S, a, b) ==
    /\ a <= b
    /\ \A p \in a..b : S[p] \notin Whitespace
    /\ (b = Len(S) \/ S[b + 1] \in Whitespace)
    /\ \A p \in 1..(a - 1) :
          (\A q \in p..(a - 1) : S[q] \notin LineBreaks) => S[p] \in Whitespace

\* S[c] alone is the next token after S[..b] on the same line
OneCodepointSecondToken(S, b, c) ==
    /\ c > b + 1
    /\ \A p \in (b + 1)..(c - 1) : S[p] \in Whitespace \ LineBreaks
    /\ S[c] \notin Whitespace
    /\ (c = Len(S) \/ S[c + 1] \in Whitespace)

\* the <<character, code>> pairs of the qualifying lines of S ("#" starts
\* a comment when it is the first character of the line's first token)
QualifyingPairs(S) ==
    { << <<S[t[3]]>>, SubSeq(S, t[1], t[2]) >> :
        t \in { u \in (DOMAIN S) \X (DOMAIN S) \X (DOMAIN S) :
                  /\ FirstToken(S, u[1], u[2])
                  /\ S[u[1]] # 35
                  /\ OneCodepointSecondToken(S, u[2], u[3])
                  /\ Permitted(S[u[3]]) } }

TablePairs(t) == UNION { { <<c, k>> : k \in t[c] } : c \in DOMAIN t }

\* C8: load_cangjie_table returns, for every text, exactly the mapping in
\* which character c has code k iff some line that is not blank and not a
\* "#" comment has k as first and c as second whitespace-separated token,
\* c being one codepoint of the permitted ranges; every other line
\* contributes nothing and tokens after the second are ignored.
C8_LoaderMapping ==
    pc = "loaded" =>
        /\ TablePairs(cj3) = QualifyingPairs(StripBOMs(cj3Text))
        /\ \A c \in DOMAIN cj3 : cj3[c] # {}

\* "zz <two codepoints>" is dropped and "a <one codepoint> b" is kept
C8_Witness ==
    /\ pc = "loaded"
    /\ cj3Text = <<122, 122, 32, 26085, 26376, 10, 97, 32, 26085, 32, 98>>
    /\ TablePairs(cj3) = { << <<26085>>, <<97>> >> }

(***************************************************************************)
(* The syllables of a pron, by position.                                   *)
(***************************************************************************)
PronSeparators == Whitespace \cup {64}

TokenStarts(p) ==
    { i \in DOMAIN p :
        p[i] \notin PronSeparators /\ (i = 1 \/ p[i - 1] \in PronSeparators) }

NthToken(p, n) ==
    LET s == CHOOSE i \in TokenStarts(p) :
                Cardinality({j \in TokenStarts(p) : j < i}) = n - 1
        e == CHOOSE j \in s..Len(p) :
                /\ \A q \in s..j : p[q] \notin PronSeparators
                /\ (j = Len(p) \/ p[j + 1] \in PronSeparators)
    IN  SubSeq(p, s, e)

\* C9: insert_posdex writes, for i in 1..4, the i-th codepoint of the word
\* to the hz table of position i and the i-th pron token (split on runs of
\* whitespace or "@") to the py table of position i, each row carrying the
\* uid and the full codepoint length of the word, and writes nothing else:
\* at most 4 rows per family however long the word or the pron.
C9_PosdexRows ==
    pc = "posdex_done" =>
        /\ DOMAIN db.data.hz = 1..4
        /\ DOMAIN db.data.py = 1..4
        /\ \A i \in 1..4 :
              /\ db.data.hz[i] =
                    IF i <= Len(ch)
                    THEN << [syllable |-> <<ch[i]>>, uid |-> uid,
                             length |-> Len(ch)] >>
                    ELSE <<>>
              /\ db.data.py[i] =
                    IF i <= Cardinality(TokenStarts(pron))
                    THEN << [syllable |-> NthToken(pron, i), uid |-> uid,
                             length |-> Len(ch)] >>
                    ELSE <<>>

\* a call with a word of more than 4 codepoints and a pron of more than 4
\* syllables
C9_Witness ==
    /\ pc = "posdex_done"
    /\ Len(ch) > 4
    /\ Cardinality(TokenStarts(pron)) > 4

(***************************************************************************)
(* The rows of the current run.                                            *)
(***************************************************************************)
OnlyCurrentRun(d) ==
    /\ \A i \in DOMAIN d.entries :
          /\ d.entries[i].word \in DOMAIN entries
          /\ d.entries[i].defn = entries[d.entries[i].word]
          /\ d.entries[i].created = now
    /\ \A i \in 1..4 :
          /\ \A k \in DOMAIN d.hz[i] :
                \E e \in DOMAIN d.entries :
                    /\ d.entries[e].uid = d.hz[i][k].uid
                    /\ d.entries[e].word = d.hz[i][k].syllable
          /\ \A k \in DOMAIN d.py[i] :
                \E e \in DOMAIN d.entries :
                    /\ d.entries[e].uid = d.py[i][k].uid
                    /\ d.entries[e].pron = d.py[i][k].syllable
    /\ \A k \in DOMAIN d.props :
          d.props[k].propid = "FileCreated" => d.props[k].propvalue = str(now)
    /\ \A k \in DOMAIN d.imports : d.imports[k].starttime = now

\* C10: build_pqb removes the file at the output path before it creates
\* the schema or writes a row, so neither the connection nor the path ever
\* holds a row of an earlier artifact, and a successfully built store holds
\* the rows of the current run only.
C10_FreshArtifact ==
    /\ pc = "connect" => file = NoFile
    /\ pc \in {"schema", "index", "now", "entry", "posdex", "props",
               "imports", "commit", "done"} =>
          /\ OnlyCurrentRun(db.data)
          /\ OnlyCurrentRun(file.data)
    /\ pc = "done" =>
          /\ file.exists
          /\ Len(file.data.entries) = Cardinality(DOMAIN entries)
          /\ Len(file.data.props) = 16
          /\ Len(file.data.imports) = 1

\* a finished build at a path that held an earlier artifact
C10_Witness ==
    /\ pc = "done"
    /\ unlinked
    /\ file.exists

(***************************************************************************)
(* The import record, the entry count and the timestamp.                   *)
(***************************************************************************)
PropValues(d, id) ==
    { d.props[k].propvalue :
        k \in {j \in DOMAIN d.props : d.props[j].propid = id} }

PropRows(d, id) == {j \in DOMAIN d.props : d.props[j].propid = id}

\* C11: a successfully built store holds exactly one import row, whose
\* first uid is 1 and whose last uid is the number of entry rows; the
\* EntryCount property is the decimal text of that number; the import row's
\* start and end time and the created and modified value of every entry row
\* are the one timestamp taken before the first row was written, which
\* every entry row of the open transaction carries as well.
C11_ImportRowAndCount ==
    /\ pc = "done" =>
          LET d == file.data
              n == Len(d.entries)
          IN  /\ Len(d.imports) = 1
              /\ d.imports[1].startentry = 1
              /\ d.imports[1].endentry = n
              /\ d.imports[1].starttime = now
              /\ d.imports[1].endtime = now
              /\ Cardinality(PropRows(d, "EntryCount")) = 1
              /\ PropValues(d, "EntryCount") = {str(n)}
              /\ \A i \in DOMAIN d.entries :
                    /\ d.entries[i].created = now
                    /\ d.entries[i].modified = now
    /\ pc \in {"entry", "posdex", "props", "imports", "commit", "done"} =>
          /\ now \in Clock
          /\ \A i \in DOMAIN db.data.entries :
                /\ db.data.entries[i].created = now
                /\ db.data.entries[i].modified = now

\* a finished build of two or more entries at a path that held the import
\* row of an earlier build
C11_Witness ==
    /\ pc = "done"
    /\ unlinked
    /\ Len(file.data.entries) >= 2
    /\ Len(file.data.imports) = 1

(***************************************************************************)
(* The order of the writes of one build.                                   *)
(***************************************************************************)
IndexRowsAt(rows, u) == {k \in DOMAIN rows : rows[k].uid = u}

\* the index rows of the entry row r are all there
IndexComplete(d, r) ==
    /\ Cardinality(IndexRowsAt(d.hz[1], r.uid)) = 1
    /\ \A j \in 1..4 :
          Cardinality(IndexRowsAt(d.py[j], r.uid)) =
              IF j <= Cardinality(TokenStarts(r.pron)) THEN 1 ELSE 0

\* the entry row r has no index row
IndexAbsent(d, r) ==
    \A j \in 1..4 :
        /\ IndexRowsAt(d.hz[j], r.uid) = {}
        /\ IndexRowsAt(d.py[j], r.uid) = {}

AllIndexed(d) == \A i \in DOMAIN d.entries : IndexComplete(d, d.entries[i])

WriteOrderStep ==
    LET d == db.data
        e == db'.data
    IN  \* nothing is written after the commit
        /\ pc # "done"
        /\ (db.open /\ db'.open) =>
              \* an entry row: uid k+1 after all rows of uids 1..k, in
              \* sorted order, before its own index rows, before the
              \* properties and the import record
              /\ e.entries # d.entries =>
                    /\ Len(e.entries) = Len(d.entries) + 1
                    /\ SubSeq(e.entries, 1, Len(d.entries)) = d.entries
                    /\ e.entries[Len(e.entries)].uid = Len(d.entries) + 1
                    /\ e.entries[Len(e.entries)].word =
                          sorted_keys[Len(d.entries) + 1]
                    /\ AllIndexed(d)
                    /\ IndexAbsent(e, e.entries[Len(e.entries)])
                    /\ e.hz = d.hz /\ e.py = d.py
                    /\ d.props = <<>> /\ e.props = <<>>
                    /\ d.imports = <<>> /\ e.imports = <<>>
              \* index rows: those of the entry row written last
              /\ (e.hz # d.hz \/ e.py # d.py) =>
                    /\ d.entries # <<>>
                    /\ e.entries = d.entries
                    /\ IndexAbsent(d, d.entries[Len(d.entries)])
                    /\ AllIndexed(e)
                    /\ d.props = <<>> /\ e.props = <<>>
                    /\ d.imports = <<>> /\ e.imports = <<>>
              \* the properties: after the index rows of the last entry
              /\ e.props # d.props =>
                    /\ Len(d.entries) = Cardinality(DOMAIN entries)
                    /\ AllIndexed(d)
                    /\ e.entries = d.entries
                    /\ e.hz = d.hz /\ e.py = d.py
                    /\ d.imports = <<>> /\ e.imports = <<>>
              \* the import record: after the properties
              /\ e.imports # d.imports =>
                    /\ Len(d.entries) = Cardinality(DOMAIN entries)
                    /\ AllIndexed(d)
                    /\ d.props # <<>>
                    /\ e.entries = d.entries
                    /\ e.hz = d.hz /\ e.py = d.py
                    /\ e.props = d.props
        \* the commit: the one step that brings rows to the output path,
        \* taken when every row has been written
        /\ (pc \in {"now", "entry", "posdex", "props", "imports", "commit"}
              /\ file' # file) =>
              /\ pc = "commit"
              /\ pc' = "done"
              /\ file'.data = db.data
              /\ db'.data = db.data
              /\ Len(db.data.entries) = Cardinality(DOMAIN entries)
              /\ AllIndexed(db.data)
              /\ db.data.props # <<>>
              /\ Len(db.data.imports) = 1

\* C12: the writes of one build come in a fixed order.  The entry row of
\* uid k+1 is written when all rows of uids 1..k are written and before any
\* index row of its own, in ascending order of the characters; the property
\* rows and then the import row are written only when the index rows of the
\* last entry are; the commit comes after the import row, is the only step
\* that brings rows to the output path, and nothing is written after it.
C12_WriteOrder == [][WriteOrderStep]_vars

\* a committed build of three entries, one of them without a syllable
C12_Witness ==
    /\ pc = "done"
    /\ ~db.open
    /\ Len(file.data.entries) = 3
    /\ Len(file.data.py[1]) = 2
    /\ Len(file.data.props) = 16

(***************************************************************************)
(* The output path of a run that aborts.                                   *)
(***************************************************************************)
BeforeBuild == {"load3", "load5", "compose", "aborted"}

AbortStep ==
    \* no step of main outside build_pqb touches the output path
    /\ pc' \in BeforeBuild => file' = file
    \* build_pqb, and with it the removal of the file, is entered with a
    \* non-empty entry set only
    /\ (pc \in BeforeBuild /\ pc' \notin BeforeBuild) =>
          /\ entries # EmptyDict
          /\ pc' = "unlink"
          /\ file' = file
    \* the abort is taken with an empty entry set, before any removal
    /\ pc' = "aborted" =>
          /\ pc = "compose"
          /\ entries = EmptyDict
          /\ ~unlinked'
          /\ db' = NoDb

\* C13: the step that aborts the run for want of entries, and every step
\* before it, leaves the output path as it was: a file that exists there
\* keeps its content.  The file is removed only inside build_pqb, which is
\* entered only with a non-empty entry set.
C13_AbortKeepsFile == [][AbortStep]_vars

\* an aborted run at a path that holds the artifact of an earlier build
C13_Witness ==
    /\ pc = "aborted"
    /\ err = "SystemExit"
    /\ file = [exists |-> TRUE, data |-> StaleData]

(***************************************************************************)
(* The index tables against the entries table.                             *)
(***************************************************************************)
\* every index row belongs to an entry row and carries its key
IndexRefersToEntries(d) ==
    \A i \in 1..4 :
        /\ \A k \in DOMAIN d.hz[i] :
              \E e \in DOMAIN d.entries :
                  /\ d.entries[e].uid = d.hz[i][k].uid
                  /\ i <= Len(d.entries[e].word)
                  /\ d.hz[i][k].syllable = <<d.entries[e].word[i]>>
        /\ \A k \in DOMAIN d.py[i] :
              \E e \in DOMAIN d.entries :
                  /\ d.entries[e].uid = d.py[i][k].uid
                  /\ i <= Cardinality(TokenStarts(d.entries[e].pron))
                  /\ d.py[i][k].syllable = NthToken(d.entries[e].pron, i)

IndexAgrees(d) ==
    /\ IndexRefersToEntries(d)
    /\ \A e \in DOMAIN d.entries :
          /\ Len(d.entries[e].word) = 1
          /\ Cardinality(IndexRowsAt(d.hz[1], d.entries[e].uid)) = 1
    /\ Len(d.hz[1]) = Len(d.entries)
    /\ \A i \in 2..4 : d.hz[i] = <<>>

\* C14: between two iterations of the loop of build_pqb, after the loop
\* and in the committed store, every index row carries the uid of an entry
\* row and, as key, that entry's character (hz) or the token of its pron at
\* the table's position (py); every entry row has exactly one row in the
\* character table of position 1; the character tables of positions 2 to 4
\* are empty, every entry being one character long.  While an entry row
\* waits for its index rows, the rows already there still refer to entries.
C14_IndexAgreesWithEntries ==
    /\ pc \in {"entry", "props", "imports", "commit", "done"} =>
          IndexAgrees(db.data)
    /\ pc = "posdex" => IndexRefersToEntries(db.data)
    /\ pc = "done" => IndexAgrees(file.data)

\* the loop between its first and its second iteration, the first entry
\* having a syllable
C14_Witness ==
    /\ pc = "entry"
    /\ uid = 2
    /\ Len(db.data.entries) = 1
    /\ Len(db.data.hz[1]) = 1
    /\ Len(db.data.py[1]) = 1

====
